---- MODULE Spec2Model ----
(***************************************************************************)
(* Contact store of app.py: one SQLite table `contact` (id INTEGER PRIMARY *)
(* KEY, name, phone) behind four Flask handlers (POST, GET, DELETE, PUT).  *)
(*                                                                         *)
(* Spec     : the handlers run one at a time, each one to completion.      *)
(* SpecDel  : two DELETE handlers run concurrently; the primary-key lookup *)
(*            (Contact.query.get) and the delete-and-commit of a handler   *)
(*            are separate steps that interleave with the other handler.   *)
(***************************************************************************)
EXTENDS Integers, Sequences, FiniteSets, TLC

VARIABLES table,    \* rows of the contact table: set of [id, name, phone]
          req,      \* the request handled by the last step
          resp,     \* the response of the last step
          created,  \* history: records returned by the successful POSTs, in order
          mutated,  \* history: some PUT or DELETE request has been made
          nreq,     \* history: number of requests handled
          table0,   \* SpecDel: the table before the two DELETE requests
          pc,       \* SpecDel: position of each DELETE handler
          target,   \* SpecDel: contact_id of each DELETE request
          obj,      \* SpecDel: contact_to_delete of each handler
          status    \* SpecDel: HTTP status returned by each handler

vars == <<table, req, resp, created, mutated, nreq, table0, pc, target, obj, status>>
seqVars == <<req, resp, created, mutated, nreq>>
delVars == <<table0, pc, target, obj, status>>

----------------------------------------------------------------------------
(* Bounds *)

\* number of successful POST requests in a behaviour
MaxCreates == 2

\* number of requests in a behaviour of Spec
MaxRequests == 4

\* contact ids a PUT or DELETE request may name: no row has id MaxCreates + 1
RequestIds == 1 .. (MaxCreates + 1)

----------------------------------------------------------------------------
(* JSON values of the request body fields `name` and `phone`.              *)
(* data.get(k) is None when the key is missing or null.                    *)

JNull == [kind |-> "null", str |-> ""]
JStr(s) == [kind |-> "string", str |-> s]

Names == {JNull, JStr(""), JStr("Alice"), JStr("Bob")}
Phones == {JNull, JStr(""), JStr("123"), JStr("456")}

\* mutant of Falsy: the test `is None` in place of `not`
FalsyNoneOnly(v) == v.kind = "null"

\* Python truth value of data.get(k): `not v` holds for None and for ''
Falsy(v) == v.kind = "null" \/ v.str = ""

\* no row: the None of Contact.query.get
None == [id |-> -1, name |-> "", phone |-> ""]

NoRequest == [op |-> "none", id |-> -1, name |-> JNull, phone |-> JNull]
Request(op, id, name, phone) == [op |-> op, id |-> id, name |-> name, phone |-> phone]

Response(st, err, c, l) == [status |-> st, error |-> err, contact |-> c, list |-> l]
NoResponse == Response(0, "", None, <<>>)

----------------------------------------------------------------------------
(* The table *)

Ids(t) == {r.id : r \in t}

MaxId(t) == CHOOSE m \in Ids(t) : \A i \in Ids(t) : i <= m

\* mutant of NextRowId: the largest id itself, not one more
NextRowIdMax(t) == IF t = {} THEN 1 ELSE MaxId(t)

\* id of an INSERT that gives no id: an INTEGER PRIMARY KEY column without
\* AUTOINCREMENT gets one more than the largest id in the table, 1 when the
\* table is empty
NextRowId(t) == IF t = {} THEN 1 ELSE MaxId(t) + 1

\* Contact.query.get(contact_id)
QueryGet(t, id) == IF id \in Ids(t) THEN CHOOSE r \in t : r.id = id ELSE None

\* Contact.to_dict()
ToDict(c) == [id |-> c.id, name |-> c.name, phone |-> c.phone]

\* mutant of InsertRow: Contact(name=phone, phone=name)
InsertRowSwapped(t, name, phone) ==
    t \cup {[id |-> NextRowId(t), name |-> phone, phone |-> name]}

\* db.session.add(Contact(name, phone)); db.session.commit()
InsertRow(t, name, phone) ==
    t \cup {[id |-> NextRowId(t), name |-> name, phone |-> phone]}

\* mutant of DeleteRow: the DELETE selects by name
DeleteRowByName(t, c) == {r \in t : r.name # c.name}

\* db.session.delete(c); db.session.commit(): DELETE FROM contact WHERE id = c.id
DeleteRow(t, c) == {r \in t : r.id # c.id}

\* mutant of UpdateRow: the UPDATE has no WHERE clause
UpdateRowAll(t, c, name, phone) ==
    {[r EXCEPT !.name = name, !.phone = phone] : r \in t}

\* c.name = name; c.phone = phone; db.session.commit():
\* UPDATE contact SET name = ?, phone = ? WHERE id = c.id
UpdateRow(t, c, name, phone) ==
    {IF r.id = c.id THEN [r EXCEPT !.name = name, !.phone = phone] ELSE r : r \in t}

\* mutant of RowsById: Contact.query.limit(1).all()
RowsByIdLimit(t) ==
    IF t = {} THEN <<>> ELSE <<CHOOSE r \in t : \A q \in t : r.id <= q.id>>

RECURSIVE RowsById(_)
\* Contact.query.all(): the rows in the order of the table scan, by id
RowsById(t) ==
    IF t = {} THEN <<>>
    ELSE LET first == CHOOSE r \in t : \A q \in t : r.id <= q.id
         IN <<first>> \o RowsById(t \ {first})

RECURSIVE ToDictList(_)
\* contacts_list of get_contacts
ToDictList(s) ==
    IF s = <<>> THEN <<>> ELSE <<ToDict(Head(s))>> \o ToDictList(Tail(s))

Range(s) == {s[i] : i \in 1 .. Len(s)}

----------------------------------------------------------------------------
(* The handlers, one request at a time *)

\* mutant of AddContact: the validation tests the name only
AddContactNameOnly(name, phone) ==
    /\ Len(created) < MaxCreates
    /\ nreq < MaxRequests /\ nreq' = nreq + 1
    /\ req' = Request("create", -1, name, phone)
    /\ IF Falsy(name)
       THEN /\ resp' = Response(400, "Name and phone are required.", None, <<>>)
            /\ UNCHANGED <<table, created>>
       ELSE /\ table' = InsertRow(table, name.str, phone.str)
            /\ resp' = Response(201, "", ToDict(QueryGet(table', NextRowId(table))), <<>>)
            /\ created' = Append(created, resp'.contact)
    /\ UNCHANGED <<mutated, delVars>>

\* POST /api/contacts
AddContact(name, phone) ==
    /\ Len(created) < MaxCreates
    /\ nreq < MaxRequests /\ nreq' = nreq + 1
    /\ req' = Request("create", -1, name, phone)
    /\ IF Falsy(name) \/ Falsy(phone)
       THEN /\ resp' = Response(400, "Name and phone are required.", None, <<>>)
            /\ UNCHANGED <<table, created>>
       ELSE /\ table' = InsertRow(table, name.str, phone.str)
            /\ resp' = Response(201, "", ToDict(QueryGet(table', NextRowId(table))), <<>>)
            /\ created' = Append(created, resp'.contact)
    /\ UNCHANGED <<mutated, delVars>>

\* GET /api/contacts
GetContacts ==
    /\ nreq < MaxRequests /\ nreq' = nreq + 1
    /\ req' = Request("list", -1, JNull, JNull)
    /\ resp' = Response(200, "", None, ToDictList(RowsById(table)))
    /\ UNCHANGED <<table, created, mutated, delVars>>

\* DELETE /api/contacts/<contact_id>
DeleteContact(contact_id) ==
    /\ nreq < MaxRequests /\ nreq' = nreq + 1
    /\ req' = Request("delete", contact_id, JNull, JNull)
    /\ mutated' = TRUE
    /\ LET contact_to_delete == QueryGet(table, contact_id) IN
       IF contact_to_delete = None
       THEN /\ resp' = Response(404, "Contact not found.", None, <<>>)
            /\ UNCHANGED table
       ELSE /\ table' = DeleteRow(table, contact_to_delete)
            /\ resp' = Response(204, "", None, <<>>)
    /\ UNCHANGED <<created, delVars>>

\* mutant of UpdateContact: the body is validated before the lookup
UpdateContactValidateFirst(contact_id, name, phone) ==
    /\ nreq < MaxRequests /\ nreq' = nreq + 1
    /\ req' = Request("update", contact_id, name, phone)
    /\ mutated' = TRUE
    /\ LET contact_to_update == QueryGet(table, contact_id) IN
       IF Falsy(name) \/ Falsy(phone)
       THEN /\ resp' = Response(400, "Name and phone are required.", None, <<>>)
            /\ UNCHANGED table
       ELSE IF contact_to_update = None
       THEN /\ resp' = Response(404, "Contact not found.", None, <<>>)
            /\ UNCHANGED table
       ELSE /\ table' = UpdateRow(table, contact_to_update, name.str, phone.str)
            /\ resp' = Response(200, "", ToDict(QueryGet(table', contact_to_update.id)), <<>>)
    /\ UNCHANGED <<created, delVars>>

\* mutant of UpdateContact: `if not name and not phone`
UpdateContactBothEmpty(contact_id, name, phone) ==
    /\ nreq < MaxRequests /\ nreq' = nreq + 1
    /\ req' = Request("update", contact_id, name, phone)
    /\ mutated' = TRUE
    /\ LET contact_to_update == QueryGet(table, contact_id) IN
       IF contact_to_update = None
       THEN /\ resp' = Response(404, "Contact not found.", None, <<>>)
            /\ UNCHANGED table
       ELSE IF Falsy(name) /\ Falsy(phone)
       THEN /\ resp' = Response(400, "Name and phone are required.", None, <<>>)
            /\ UNCHANGED table
       ELSE /\ table' = UpdateRow(table, contact_to_update, name.str, phone.str)
            /\ resp' = Response(200, "", ToDict(QueryGet(table', contact_to_update.id)), <<>>)
    /\ UNCHANGED <<created, delVars>>

\* PUT /api/contacts/<contact_id>
UpdateContact(contact_id, name, phone) ==
    /\ nreq < MaxRequests /\ nreq' = nreq + 1
    /\ req' = Request("update", contact_id, name, phone)
    /\ mutated' = TRUE
    /\ LET contact_to_update == QueryGet(table, contact_id) IN
       IF contact_to_update = None
       THEN /\ resp' = Response(404, "Contact not found.", None, <<>>)
            /\ UNCHANGED table
       ELSE IF Falsy(name) \/ Falsy(phone)
       THEN /\ resp' = Response(400, "Name and phone are required.", None, <<>>)
            /\ UNCHANGED table
       ELSE /\ table' = UpdateRow(table, contact_to_update, name.str, phone.str)
            /\ resp' = Response(200, "", ToDict(QueryGet(table', contact_to_update.id)), <<>>)
    /\ UNCHANGED <<created, delVars>>

Procs == {1, 2}

Init ==
    /\ table = {}
    /\ req = NoRequest
    /\ resp = NoResponse
    /\ created = <<>>
    /\ mutated = FALSE
    /\ nreq = 0
    /\ table0 = {}
    /\ pc = [p \in Procs |-> "idle"]
    /\ target = [p \in Procs |-> -1]
    /\ obj = [p \in Procs |-> None]
    /\ status = [p \in Procs |-> 0]

Next ==
    \/ \E name \in Names, phone \in Phones : AddContact(name, phone)
    \/ GetContacts
    \/ \E id \in RequestIds : DeleteContact(id)
    \/ \E id \in RequestIds, name \in Names, phone \in Phones : UpdateContact(id, name, phone)

Spec == Init /\ [][Next]_vars

----------------------------------------------------------------------------
(* Two concurrent DELETE handlers.  Each request has its own session (the  *)
(* scoped session of Flask-SQLAlchemy), so contact_to_delete is private to *)
(* its handler; the table is shared.                                       *)

ValidRows == [id : 1 .. MaxCreates, name : {"Alice", "Bob"}, phone : {"123", "456"}]

\* the tables that MaxCreates POSTs followed by PUTs and DELETEs can leave
InitialTables ==
    {t \in SUBSET ValidRows : \A r, q \in t : r.id = q.id => r = q}

\* delete_contact, lines 93-98: the lookup and the early return
DeleteLookup(p, contact_id) ==
    /\ pc[p] = "idle"
    /\ target' = [target EXCEPT ![p] = contact_id]
    /\ obj' = [obj EXCEPT ![p] = QueryGet(table, contact_id)]
    /\ IF obj'[p] = None
       THEN /\ status' = [status EXCEPT ![p] = 404]
            /\ pc' = [pc EXCEPT ![p] = "done"]
       ELSE /\ pc' = [pc EXCEPT ![p] = "found"]
            /\ UNCHANGED status
    /\ UNCHANGED <<table, table0, seqVars>>

\* mutant of DeleteCommit: db.session.commit() is missing
DeleteCommitNoCommit(p) ==
    /\ pc[p] = "found"
    /\ status' = [status EXCEPT ![p] = 204]
    /\ pc' = [pc EXCEPT ![p] = "done"]
    /\ UNCHANGED <<table, table0, target, obj, seqVars>>

\* delete_contact, lines 101-108: the DELETE, the commit and the response.
\* A DELETE that matches no row (the row went with the other handler's
\* commit) is a warning of the ORM, not an error: the commit succeeds.
DeleteCommit(p) ==
    /\ pc[p] = "found"
    /\ table' = DeleteRow(table, obj[p])
    /\ status' = [status EXCEPT ![p] = 204]
    /\ pc' = [pc EXCEPT ![p] = "done"]
    /\ UNCHANGED <<table0, target, obj, seqVars>>

InitDel ==
    /\ table \in InitialTables
    /\ table0 = table
    /\ req = NoRequest
    /\ resp = NoResponse
    /\ created = <<>>
    /\ mutated = FALSE
    /\ nreq = 0
    /\ pc = [p \in Procs |-> "idle"]
    /\ target = [p \in Procs |-> -1]
    /\ obj = [p \in Procs |-> None]
    /\ status = [p \in Procs |-> 0]

NextDel ==
    \/ \E p \in Procs, id \in RequestIds : DeleteLookup(p, id)
    \/ \E p \in Procs : DeleteCommit(p)

SpecDel == InitDel /\ [][NextDel]_vars

----------------------------------------------------------------------------
(* Properties of the handlers run one at a time (Spec).  In Spec every     *)
(* step is one request handled to completion: req' is the request, resp'   *)
(* its response, table the rows before it and table' the rows after it.    *)

Valid(name, phone) == ~Falsy(name) /\ ~Falsy(phone)

\* C1 as stated: every successful Create returns an id that differs from the
\* id returned by every earlier successful Create, deleted records included.
C1_IdNeverReturnedTwice ==
    \A i, j \in 1 .. Len(created) : i < j => created[i].id # created[j].id

\* C1 amended: every successful Create returns an id that differs from the id
\* of every record persisted when the Create is made (it is larger than all
\* of them), so from the id of every earlier Create whose record has not
\* been deleted.
C1_IdFreshAmongPersisted ==
    [][(req'.op = "create" /\ resp'.status = 201 /\ created' # created)
         => /\ \A r \in table : r.id < resp'.contact.id
            /\ \A i \in 1 .. Len(created) :
                  created[i].id \in Ids(table) => created[i].id # resp'.contact.id]_vars

C1_Witness ==
    /\ Len(created) >= 2
    /\ req.op = "create" /\ resp.status = 201
    /\ Cardinality(table) >= 2

\* C2: a Create whose name or phone is empty or missing yields 400 with the
\* error 'Name and phone are required.' and leaves the persisted records as
\* they were.
C2_CreateInvalidRejected ==
    [][(req'.op = "create" /\ ~Valid(req'.name, req'.phone))
         => /\ resp'.status = 400
            /\ resp'.error = "Name and phone are required."
            /\ table' = table]_vars

C2_Witness ==
    /\ req.op = "create" /\ resp.status = 400
    /\ ~Falsy(req.name) /\ req.phone = JStr("")
    /\ table # {}

\* C3: an Update on an id that no persisted record has yields 404, whatever
\* the name and phone of the body, and leaves every record unchanged.
C3_UpdateMissingIsNotFound ==
    [][(req'.op = "update" /\ req'.id \notin Ids(table))
         => /\ resp'.status = 404
            /\ table' = table]_vars

C3_Witness ==
    /\ req.op = "update" /\ resp.status = 404
    /\ Falsy(req.name)
    /\ table # {}

\* C4: a Delete on an id that no record has yields 404 and changes nothing;
\* a Delete on an existing id yields 204, removes the record with that id and
\* leaves every other record unchanged.
C4_DeleteExactlyOne ==
    [][req'.op = "delete"
         => IF req'.id \in Ids(table)
            THEN /\ resp'.status = 204
                 /\ req'.id \notin Ids(table')
                 /\ \A r \in table : r.id # req'.id => r \in table'
                 /\ table' \subseteq table
            ELSE /\ resp'.status = 404
                 /\ table' = table]_vars

C4_Witness ==
    /\ req.op = "delete" /\ resp.status = 204
    /\ table # {}
    /\ Len(created) >= 2

\* C5: from an empty table, after N successful Creates and no Delete and no
\* Update request, ListAll returns exactly N records, which are exactly the
\* records the Creates returned: none missing, duplicated or extra, each with
\* the name and phone of its Create.
C5_ListAllIsTheCreated ==
    (req.op = "list" /\ ~mutated)
        => /\ Len(resp.list) = Len(created)
           /\ Range(resp.list) = Range(created)
           /\ Cardinality(Range(resp.list)) = Len(resp.list)
           /\ resp.status = 200

C5_Witness ==
    /\ req.op = "list" /\ ~mutated
    /\ Len(created) >= 2
    /\ Len(resp.list) >= 2

\* C6: right after a successful Create(name, phone) that returned id i, the
\* lookup of i by primary key finds a record with that name and that phone.
C6_CreateRoundTrip ==
    (req.op = "create" /\ resp.status = 201)
        => LET found == QueryGet(table, resp.contact.id) IN
           /\ found # None
           /\ found.name = req.name.str
           /\ found.phone = req.phone.str

C6_Witness ==
    /\ req.op = "create" /\ resp.status = 201
    /\ Cardinality(table) >= 2
    /\ req.name = JStr("Bob") /\ req.phone = JStr("456")

\* C7: in every reachable state every persisted record has a non-empty name
\* and a non-empty phone, and no two persisted records share an id.
C7_RecordsValidIdsUnique ==
    /\ \A r \in table : r.name # "" /\ r.phone # ""
    /\ \A r, q \in table : r.id = q.id => r = q

C7_Witness ==
    /\ Cardinality(table) >= 2
    /\ mutated
    /\ req.op = "update" /\ resp.status = 400

\* C8: an Update of an existing id with non-empty name and phone returns 200
\* and the record {id, name, phone} of the request; afterwards the record
\* with that id holds these values, the set of ids is the same and every
\* other record is unchanged.
C8_UpdateInPlace ==
    [][(req'.op = "update" /\ req'.id \in Ids(table) /\ Valid(req'.name, req'.phone))
         => LET new == [id |-> req'.id, name |-> req'.name.str, phone |-> req'.phone.str] IN
            /\ resp'.status = 200
            /\ resp'.contact = new
            /\ new \in table'
            /\ Ids(table') = Ids(table)
            /\ \A r \in table : r.id # req'.id => r \in table'
            /\ Cardinality(table') = Cardinality(table)]_vars

C8_Witness ==
    /\ req.op = "update" /\ resp.status = 200
    /\ Cardinality(table) >= 2
    /\ \E i \in 1 .. Len(created) :
          created[i].id = req.id /\ created[i] # resp.contact

\* C9: an Update of an existing id whose name or phone is empty or missing
\* yields 400 and writes nothing: the record keeps its name and phone, also
\* when one field is invalid and the other a valid new value, and the other
\* records are unchanged.
C9_UpdateInvalidWritesNothing ==
    [][(req'.op = "update" /\ req'.id \in Ids(table) /\ ~Valid(req'.name, req'.phone))
         => /\ resp'.status = 400
            /\ table' = table]_vars

C9_Witness ==
    /\ req.op = "update" /\ resp.status = 400
    /\ req.id \in Ids(table)
    /\ Falsy(req.name) /\ ~Falsy(req.phone)
    /\ QueryGet(table, req.id).phone # req.phone.str

----------------------------------------------------------------------------
(* Properties of two concurrent DELETE handlers (SpecDel) *)

BothDone == \A p \in Procs : pc[p] = "done"

\* the two requests name the same id, which a record had before them
SameExistingId == target[1] = target[2] /\ target[1] \in Ids(table0)

\* C10 as stated: of two concurrent Deletes of the same existing id exactly
\* one returns 204 and the other 404; never both 204.
C10_ExactlyOneSuccess ==
    (BothDone /\ SameExistingId)
        => \E p, q \in Procs : p # q /\ status[p] = 204 /\ status[q] = 404

\* C10 amended: of two concurrent Deletes of the same existing id at least
\* one returns 204 and each returns 204 or 404; the other returns 404 exactly
\* when its lookup ran after the first one's commit, and 204 when both
\* lookups ran before either commit.  Afterwards the record is gone and every
\* other record is unchanged.
C10_AtLeastOneSuccess ==
    (BothDone /\ SameExistingId)
        => /\ \A p \in Procs : status[p] \in {204, 404}
           /\ \E p \in Procs : status[p] = 204
           /\ \A p \in Procs : status[p] = 404 <=> obj[p] = None
           /\ table = {r \in table0 : r.id # target[1]}

C10_Witness ==
    /\ BothDone /\ SameExistingId
    /\ \A p \in Procs : status[p] = 204
    /\ table # {}

====
